---- MODULE Spec2Model ----
(***************************************************************************)
(* Model of the long-tail evaluation metrics                               *)
(* (recbole/evaluator/metrics_custom.py: CumulativeTailPercentage,         *)
(* CumulativeHeadPercentage) and of the group tables of the W&B logger     *)
(* (recbole/utils/wandblogger.py: log_group_eval,                          *)
(* log_group_summary_table).                                               *)
(*                                                                         *)
(* Numbers.  Interaction counts are integers.  A ratio, a cumulative mean  *)
(* and a group statistic are exact fractions <<num, den>> with den > 0,    *)
(* compared by cross-multiplication; binary floating point rounding of     *)
(* the products is not modelled.  A standard deviation is kept as the      *)
(* signed square root of a fraction, [sgn, sq].                            *)
(***************************************************************************)
EXTENDS Integers, Sequences, FiniteSets, TLC

VARIABLES
    count_items,    \* classifier run: the popularity table handed in
    ratio,          \* classifier run: self.tail_ratio of the instance
    classified,     \* classifier run: what get_tail_items/get_head_items returned
    item_matrix,    \* aggregator run: rec.items, U rows of N item ids
    item_set,       \* aggregator run: the classified set the mask is built from
    topk,           \* aggregator run: self.topk, the configured cutoffs
    decimal_place,  \* aggregator run: self.decimal_place
    result,         \* aggregator run: what the pipeline returned
    self,           \* life cycle: the metric instance (None before __init__)
    last,           \* life cycle: the last calculate_metric call and its outcome
    group_eval,     \* logger run: the records of group_eval in iteration order
    log_wandb,      \* logger run: WandbLogger.log_wandb
    logged          \* logger run: the tables handed to wandb.log

vars == <<count_items, ratio, classified, item_matrix, item_set, topk,
          decimal_place, result, self, last, group_eval, log_wandb, logged>>

classifyVars == <<count_items, ratio, classified>>
topkVars == <<item_matrix, item_set, topk, decimal_place, result>>
metricVars == <<self, last>>
logVars == <<group_eval, log_wandb, logged>>

Range(f) == {f[i] : i \in DOMAIN f}

NotClassified == [policy |-> "none", outcome |-> "pending", items |-> {}]

(***************************************************************************)
(* Bounds of the model.                                                    *)
(***************************************************************************)
MaxItem == 3        \* item ids of a popularity table are 1..MaxItem
MaxCount == 3       \* interaction counts are 0..MaxCount
MaxDen == 4         \* ratios are n/d with d in 1..MaxDen

ItemIds == 1..MaxItem

\* Every popularity table over the item ids, the empty one included.
CountTables(ids, maxCount) ==
    UNION {[S -> 0..maxCount] : S \in SUBSET ids}

\* The ratios in (0, 1].
UnitRatios(maxDen) == {r \in (1..maxDen) \X (1..maxDen) : r[1] <= r[2]}

InUnitInterval(r) == r[1] > 0 /\ r[1] <= r[2]

(***************************************************************************)
(* Popularity classifier.                                                  *)
(***************************************************************************)
\* key=lambda x: (x[1], x[0]) of sorted(): count first, then item id.
KeyLess(a, b) == a[2] < b[2] \/ (a[2] = b[2] /\ a[1] < b[1])

RECURSIVE SortPairs(_)
SortPairs(S) ==
    IF S = {} THEN <<>>
    ELSE LET m == CHOOSE x \in S : \A y \in S \ {x} : KeyLess(x, y)
         IN <<m>> \o SortPairs(S \ {m})

\* sorted(count_items.items(), key=lambda x: (x[1], x[0]))
SortedItems(counts) == SortPairs({<<i, counts[i]>> : i \in DOMAIN counts})

\* reversed(sorted_items)
Reversed(s) == [i \in 1..Len(s) |-> s[Len(s) + 1 - i]]

RECURSIVE SumCnt(_, _)
SumCnt(s, i) == IF i > Len(s) THEN 0 ELSE s[i][2] + SumCnt(s, i + 1)

\* The accumulation loop: add the item, then stop once
\* cumulative >= threshold, where threshold = (r[1]/r[2]) * total.
RECURSIVE Accumulate(_, _, _, _, _, _)
Accumulate(s, i, cumulative, acc, r, total) ==
    IF i > Len(s) THEN acc
    ELSE LET cum2 == cumulative + s[i][2]
             acc2 == acc \cup {s[i][1]}
         IN IF cum2 * r[2] >= r[1] * total
            THEN acc2
            ELSE Accumulate(s, i + 1, cum2, acc2, r, total)

\* The loop with the comparison made strict (cumulative > threshold).
RECURSIVE AccumulateStrict(_, _, _, _, _, _)
AccumulateStrict(s, i, cumulative, acc, r, total) ==
    IF i > Len(s) THEN acc
    ELSE LET cum2 == cumulative + s[i][2]
             acc2 == acc \cup {s[i][1]}
         IN IF cum2 * r[2] > r[1] * total
            THEN acc2
            ELSE AccumulateStrict(s, i + 1, cum2, acc2, r, total)

\* The loop leaving the loop before it adds the item that crosses.
RECURSIVE AccumulateExclusive(_, _, _, _, _, _)
AccumulateExclusive(s, i, cumulative, acc, r, total) ==
    IF i > Len(s) THEN acc
    ELSE LET cum2 == cumulative + s[i][2]
         IN IF cum2 * r[2] >= r[1] * total
            THEN acc
            ELSE AccumulateExclusive(s, i + 1, cum2, acc \cup {s[i][1]}, r, total)

get_tail_items_strict(tail_ratio, counts) ==
    LET sorted_items == SortedItems(counts)
        total == SumCnt(sorted_items, 1)
    IN AccumulateStrict(sorted_items, 1, 0, {}, tail_ratio, total)

get_tail_items_exclusive(tail_ratio, counts) ==
    LET sorted_items == SortedItems(counts)
        total == SumCnt(sorted_items, 1)
    IN AccumulateExclusive(sorted_items, 1, 0, {}, tail_ratio, total)

get_tail_items(tail_ratio, counts) ==
    LET sorted_items == SortedItems(counts)
        total == SumCnt(sorted_items, 1)
    IN Accumulate(sorted_items, 1, 0, {}, tail_ratio, total)

get_head_items(tail_ratio, counts) ==
    LET sorted_items == SortedItems(counts)
        total == SumCnt(sorted_items, 1)
    IN Accumulate(Reversed(sorted_items), 1, 0, {}, tail_ratio, total)

InitClassifyVars ==
    /\ count_items \in CountTables(ItemIds, MaxCount)
    /\ ratio \in UnitRatios(MaxDen)
    /\ classified = NotClassified

\* A call of get_tail_items: it returns a set and raises nothing.
ClassifyTail ==
    /\ classified = NotClassified
    /\ classified' = [policy |-> "tail", outcome |-> "returned",
                      items |-> get_tail_items(ratio, count_items)]
    /\ UNCHANGED <<count_items, ratio, topkVars, metricVars, logVars>>

\* A call of get_head_items.
ClassifyHead ==
    /\ classified = NotClassified
    /\ classified' = [policy |-> "head", outcome |-> "returned",
                      items |-> get_head_items(ratio, count_items)]
    /\ UNCHANGED <<count_items, ratio, topkVars, metricVars, logVars>>

(***************************************************************************)
(* Relevance mask and cumulative top-k aggregator.                         *)
(***************************************************************************)
MaxUsers == 2       \* a recommendation matrix has 1..MaxUsers rows
MaxCols == 2        \* and 1..MaxCols columns

RecItems == {1, 2}          \* the item ids a recommendation cell holds
TopkLens == {1, 2}          \* the lengths of a configured cutoff list
DecimalPlaces == {0, 2}     \* the configured metric_decimal_place values

\* Cutoffs are rank positions, k >= 1, and may exceed the number of columns.
Cutoffs == 1..(MaxCols + 1)

Matrices(maxUsers, maxCols, ids) ==
    UNION {[1..u -> [1..n -> ids]] : u \in 1..maxUsers, n \in 1..maxCols}

CutoffLists == UNION {[1..l -> Cutoffs] : l \in TopkLens}

NotAggregated == [metric |-> "none", outcome |-> "pending", entries |-> <<>>]

NumCols(m) == Len(m[1])

\* np.isin(item_matrix, list(tail_items)).astype(np.float32)
get_tail_matrix(m, tail_items) ==
    [u \in DOMAIN m |-> [j \in DOMAIN m[u] |->
        IF m[u][j] \in tail_items THEN 1 ELSE 0]]

\* np.isin(item_matrix, list(item_set)).astype(np.float32)
get_group_mask(m, items) ==
    [u \in DOMAIN m |-> [j \in DOMAIN m[u] |->
        IF m[u][j] \in items THEN 1 ELSE 0]]

RECURSIVE CumSum(_, _)
CumSum(row, j) == IF j = 0 THEN 0 ELSE row[j] + CumSum(row, j - 1)

\* values.cumsum(axis=1) / values.shape[1]: every column divided by N.
metric_info_by_width(values) ==
    [u \in DOMAIN values |-> [j \in DOMAIN values[u] |->
        <<CumSum(values[u], j), Len(values[u])>>]]

\* values.cumsum(axis=1) / np.arange(1, values.shape[1] + 1)
metric_info(values) ==
    [u \in DOMAIN values |-> [j \in DOMAIN values[u] |->
        <<CumSum(values[u], j), j>>]]

FracAdd(a, b) == <<a[1] * b[2] + b[1] * a[2], a[2] * b[2]>>
FracEq(a, b) == a[1] * b[2] = b[1] * a[2]
FracLess(a, b) == a[1] * b[2] < b[1] * a[2]

RECURSIVE ColSum(_, _, _)
ColSum(values, j, u) ==
    IF u = 0 THEN <<0, 1>> ELSE FracAdd(values[u][j], ColSum(values, j, u - 1))

\* values.mean(axis=0)
MeanAxis0(values) ==
    [j \in 1..NumCols(values) |->
        LET sum == ColSum(values, j, Len(values))
        IN <<sum[1], sum[2] * Len(values)>>]

RECURSIVE Pow10(_)
Pow10(n) == IF n = 0 THEN 1 ELSE 10 * Pow10(n - 1)

\* round(x, ndigits) of a non-negative x, ties to even, as a fraction over
\* 10^ndigits.
Round(x, ndigits) ==
    LET scaled == x[1] * Pow10(ndigits)
        fl == scaled \div x[2]
        rem2 == 2 * (scaled % x[2])
        up == rem2 > x[2] \/ (rem2 = x[2] /\ fl % 2 = 1)
    IN <<IF up THEN fl + 1 ELSE fl, Pow10(ndigits)>>

IndexError == "IndexError"

Raised == [raised |-> TRUE, value |-> <<0, 1>>]
Got(v) == [raised |-> FALSE, value |-> v]

\* An index past the end gives the last element instead of raising.
NpIndexClamped(arr, i) ==
    IF i >= Len(arr) THEN Got(arr[Len(arr)])
    ELSE IF i >= 0 THEN Got(arr[i + 1])
    ELSE IF i >= 0 - Len(arr) THEN Got(arr[Len(arr) + i + 1])
    ELSE Raised

\* arr[i] of a one-dimensional array: 0-based, a negative index counts from
\* the end, anything else raises IndexError.
NpIndex(arr, i) ==
    IF i >= 0 /\ i < Len(arr) THEN Got(arr[i + 1])
    ELSE IF i < 0 /\ i >= 0 - Len(arr) THEN Got(arr[Len(arr) + i + 1])
    ELSE Raised

\* The loop of topk_result over self.topk; an IndexError leaves the loop
\* and nothing is returned.
RECURSIVE TopkLoop(_, _, _, _, _, _)
TopkLoop(metric, avg_result, ks, i, places, res) ==
    IF i > Len(ks) THEN [metric |-> metric, outcome |-> "returned", entries |-> res]
    ELSE LET k == ks[i]
             got == NpIndex(avg_result, k - 1)
         IN IF got.raised
            THEN [metric |-> metric, outcome |-> IndexError, entries |-> <<>>]
            ELSE TopkLoop(metric, avg_result, ks, i + 1, places,
                          (k :> [raw |-> got.value,
                                 rounded |-> Round(got.value, places)]) @@ res)

\* topk_result: the entry of key "{metric}@{k}" is entries[k].
topk_result(metric, values, ks, places) ==
    TopkLoop(metric, MeanAxis0(values), ks, 1, places, <<>>)

InitTopkVars ==
    /\ item_matrix \in Matrices(MaxUsers, MaxCols, RecItems)
    /\ item_set \in SUBSET RecItems
    /\ topk \in CutoffLists
    /\ decimal_place \in DecimalPlaces
    /\ result = NotAggregated

\* CumulativeTailPercentage.calculate_metric from the classified set on.
AggregateTail ==
    /\ result = NotAggregated
    /\ LET tail_mask == get_tail_matrix(item_matrix, item_set)
           tail_values == metric_info(tail_mask)
       IN result' = topk_result("cumulativetailpercentage", tail_values,
                                topk, decimal_place)
    /\ UNCHANGED <<item_matrix, item_set, topk, decimal_place,
                   classifyVars, metricVars, logVars>>

\* CumulativeHeadPercentage.calculate_metric from the classified set on.
AggregateHead ==
    /\ result = NotAggregated
    /\ LET head_mask == get_group_mask(item_matrix, item_set)
           head_values == metric_info(head_mask)
       IN result' = topk_result("headpercentage", head_values,
                                topk, decimal_place)
    /\ UNCHANGED <<item_matrix, item_set, topk, decimal_place,
                   classifyVars, metricVars, logVars>>

NextTopk == AggregateTail \/ AggregateHead

IdleTopk ==
    /\ item_matrix = <<>>
    /\ item_set = {}
    /\ topk = <<>>
    /\ decimal_place = 0
    /\ result = NotAggregated

(***************************************************************************)
(* Life cycle of a metric instance: __init__, a later assignment to        *)
(* tail_ratio, calculate_metric.                                           *)
(***************************************************************************)
MaxCfgDen == 2      \* configured ratios are n/d with d in 1..MaxCfgDen

LifeItems == {1, 2}         \* item ids of the tables of this life cycle
LifeCounts == {0, 1, 2}     \* their counts
LifeTopk == {<<1>>}         \* config["topk"]
LifePlaces == {2}           \* config["metric_decimal_place"]

LifeTables == UNION {[S -> LifeCounts] : S \in SUBSET LifeItems}
LifeMatrices == Matrices(1, 1, RecItems)

\* config["tail_ratio"]: absent (None), or a number n/d that may lie
\* outside (0, 1]: negative, 0, above 1.
CfgRatios ==
    {[set |-> FALSE, value |-> <<0, 1>>]} \cup
    {[set |-> TRUE, value |-> <<n, d>>] : n \in (0 - 1)..(MaxCfgDen + 1),
                                          d \in 1..MaxCfgDen}

Configs == [topk : LifeTopk, tail_ratio : CfgRatios,
            metric_decimal_place : LifePlaces]

NoConfigRatio == [set |-> FALSE, value |-> <<0, 1>>]
NoInstance == [cls |-> "none", topk |-> <<>>, tail_ratio |-> <<0, 1>>,
               decimal_place |-> 0, config_ratio |-> NoConfigRatio]
NoCall == [called |-> FALSE, count_items |-> <<>>, item_matrix |-> <<>>,
           tail_ratio |-> <<0, 1>>, items |-> {}, result |-> NotAggregated]

\* config["tail_ratio"] if config["tail_ratio"] else 0.2
init_tail_ratio(cfg_ratio) ==
    IF cfg_ratio.set /\ cfg_ratio.value[1] # 0 THEN cfg_ratio.value ELSE <<1, 5>>

\* __init__ of either class; config_ratio keeps what the configuration held.
init(cls, config) ==
    [cls |-> cls, topk |-> config.topk,
     tail_ratio |-> init_tail_ratio(config.tail_ratio),
     decimal_place |-> config.metric_decimal_place,
     config_ratio |-> config.tail_ratio]

\* calculate_metric keeping the set of the previous call when there is one.
calculate_metric_memoized(inst, m, counts) ==
    LET tail_items == IF last.called THEN last.items
                      ELSE get_tail_items(inst.tail_ratio, counts)
        tail_mask == get_tail_matrix(m, tail_items)
        tail_values == metric_info(tail_mask)
    IN [items |-> tail_items,
        result |-> topk_result("cumulativetailpercentage", tail_values,
                               inst.topk, inst.decimal_place)]

\* CumulativeTailPercentage.calculate_metric
calculate_metric(inst, m, counts) ==
    LET tail_items == get_tail_items(inst.tail_ratio, counts)
        tail_mask == get_tail_matrix(m, tail_items)
        tail_values == metric_info(tail_mask)
    IN [items |-> tail_items,
        result |-> topk_result("cumulativetailpercentage", tail_values,
                               inst.topk, inst.decimal_place)]

\* CumulativeHeadPercentage.calculate_metric
calculate_metric_head(inst, m, counts) ==
    LET head_items == get_head_items(inst.tail_ratio, counts)
        head_mask == get_group_mask(m, head_items)
        head_values == metric_info(head_mask)
    IN [items |-> head_items,
        result |-> topk_result("headpercentage", head_values,
                               inst.topk, inst.decimal_place)]

InitMetricVars ==
    /\ self = NoInstance
    /\ last = NoCall

ConstructTail ==
    /\ \E config \in Configs : self' = init("tail", config)
    /\ last' = NoCall
    /\ UNCHANGED <<classifyVars, topkVars, logVars>>

ConstructHead ==
    /\ \E config \in Configs : self' = init("head", config)
    /\ last' = NoCall
    /\ UNCHANGED <<classifyVars, topkVars, logVars>>

\* instance.tail_ratio = r after construction, r a ratio of (0, 1].
SetTailRatio ==
    /\ self.cls # "none"
    /\ \E r \in UnitRatios(MaxCfgDen) : self' = [self EXCEPT !.tail_ratio = r]
    /\ UNCHANGED <<last, classifyVars, topkVars, logVars>>

CalculateMetricTail ==
    /\ self.cls = "tail"
    /\ \E m \in LifeMatrices, counts \in LifeTables :
          LET out == calculate_metric(self, m, counts)
          IN last' = [called |-> TRUE, count_items |-> counts,
                      item_matrix |-> m, tail_ratio |-> self.tail_ratio,
                      items |-> out.items, result |-> out.result]
    /\ UNCHANGED <<self, classifyVars, topkVars, logVars>>

CalculateMetricHead ==
    /\ self.cls = "head"
    /\ \E m \in LifeMatrices, counts \in LifeTables :
          LET out == calculate_metric_head(self, m, counts)
          IN last' = [called |-> TRUE, count_items |-> counts,
                      item_matrix |-> m, tail_ratio |-> self.tail_ratio,
                      items |-> out.items, result |-> out.result]
    /\ UNCHANGED <<self, classifyVars, topkVars, logVars>>

Next ==
    \/ ConstructTail
    \/ ConstructHead
    \/ SetTailRatio
    \/ CalculateMetricTail
    \/ CalculateMetricHead

(***************************************************************************)
(* Group tables of the W&B logger: log_group_eval and                      *)
(* log_group_summary_table.  group_name_mappings and group_eval_meta keep  *)
(* their default None, so Group is str(group_id) and GroupSize is -1.      *)
(* Metric names are numbers ordered as sorted() orders the names; a        *)
(* metrics dict is iterated in that order.                                 *)
(***************************************************************************)
MaxRecords == 2     \* group_eval holds 0..MaxRecords (group type, group) records

GroupTypes == {"age", "gender"}
GroupIds == {1, 2}
MetricNames == {1, 2}
MetricValues == {0 - 1, 0, 1}

MetricDicts == UNION {[S -> MetricValues] : S \in SUBSET MetricNames}

GroupRecords == [group_type : GroupTypes, group_id : GroupIds,
                 metrics : MetricDicts]

\* The records in the order the two nested loops visit them: a (group type,
\* group) pair occurs once and the records of one group type are adjacent.
GroupEvals ==
    {recs \in UNION {[1..l -> GroupRecords] : l \in 0..MaxRecords} :
        /\ \A i, j \in DOMAIN recs :
              (i # j) => <<recs[i].group_type, recs[i].group_id>> #
                         <<recs[j].group_type, recs[j].group_id>>
        /\ \A i, j, k \in DOMAIN recs :
              (i < j /\ j < k /\ recs[i].group_type = recs[k].group_type)
                  => recs[j].group_type = recs[i].group_type}

FixedColumns == <<<<"fixed", 1>>, <<"fixed", 2>>, <<"fixed", 3>>>>
MetricColumn(name) == <<"metric", name>>

Unset == [set |-> FALSE, value |-> 0]
Cell(v) == [set |-> TRUE, value |-> v]

NoTable == [present |-> FALSE, columns |-> <<>>, data |-> <<>>]
NotLogged == [outcome |-> "pending", detail |-> NoTable, summary |-> NoTable]

RECURSIVE SortNames(_)
SortNames(S) ==
    IF S = {} THEN <<>>
    ELSE LET m == CHOOSE x \in S : \A y \in S : x <= y
         IN <<m>> \o SortNames(S \ {m})

\* group_type_metrics[group_type][metric].append(value); a new bucket goes
\* to the end.
AppendValue(buckets, group_type, metric, value) ==
    IF \E b \in DOMAIN buckets :
          buckets[b].group_type = group_type /\ buckets[b].metric = metric
    THEN [b \in DOMAIN buckets |->
            IF buckets[b].group_type = group_type /\ buckets[b].metric = metric
            THEN [buckets[b] EXCEPT !.values = Append(@, value)]
            ELSE buckets[b]]
    ELSE Append(buckets, [group_type |-> group_type, metric |-> metric,
                          values |-> <<value>>])

\* for metric, value in metrics.items(): ...
RECURSIVE AddMetrics(_, _, _, _)
AddMetrics(st, group_type, metrics, names) ==
    IF names = <<>> THEN st
    ELSE LET metric == Head(names)
         IN AddMetrics([st EXCEPT
                          !.first_seen = IF metric \in st.all_metrics THEN @
                                         ELSE Append(@, metric),
                          !.all_metrics = @ \cup {metric},
                          !.buckets = AppendValue(@, group_type, metric,
                                                  metrics[metric])],
                       group_type, metrics, Tail(names))

\* The two nested loops of log_group_eval: one row per record, the set of
\* metric names, the value lists per (group type, metric).
RECURSIVE GroupLoop(_, _, _)
GroupLoop(recs, i, st) ==
    IF i > Len(recs) THEN st
    ELSE LET rec == recs[i]
             row == [fixed |-> <<rec.group_type, rec.group_id, 0 - 1>>,
                     metrics |-> rec.metrics]
             st2 == [st EXCEPT !.all_rows = Append(@, row)]
         IN GroupLoop(recs, i + 1,
                      AddMetrics(st2, rec.group_type, rec.metrics,
                                 SortNames(DOMAIN rec.metrics)))

\* row.get(m): None when the row does not carry m.
RowGet(row, m) == IF m \in DOMAIN row.metrics THEN Cell(row.metrics[m]) ELSE Unset

\* The columns in the order the names were first seen, not sorted.
MetricColumnOrderUnsorted(st) == st.first_seen

\* all_metrics = sorted(all_metrics)
MetricColumnOrder(st) == SortNames(st.all_metrics)

\* columns and data of the detail table
DetailTable(st) ==
    LET all_metrics == MetricColumnOrder(st)
    IN [present |-> TRUE,
        columns |-> FixedColumns \o
                    [c \in DOMAIN all_metrics |-> MetricColumn(all_metrics[c])],
        data |-> [r \in DOMAIN st.all_rows |->
                    [fixed |-> st.all_rows[r].fixed,
                     cells |-> [c \in DOMAIN all_metrics |->
                                  RowGet(st.all_rows[r], all_metrics[c])]]]]

RECURSIVE SeqSum(_)
SeqSum(vs) == IF vs = <<>> THEN 0 ELSE Head(vs) + SeqSum(Tail(vs))

\* np.mean(values_np)
NpMean(vs) == <<SeqSum(vs), Len(vs)>>

\* np.std(values_np): sqrt(mean(abs(x - mean) ** 2)), the population
\* deviation, kept as the root of the fraction sq.
NpStd(vs) ==
    LET n == Len(vs)
        sum == SeqSum(vs)
        dev2 == SeqSum([i \in DOMAIN vs |-> (n * vs[i] - sum) * (n * vs[i] - sum)])
    IN [sgn |-> IF dev2 = 0 THEN 0 ELSE 1, sq |-> <<dev2, n * n * n>>]

NpMax(vs) == CHOOSE x \in Range(vs) : \A y \in Range(vs) : y <= x
NpMin(vs) == CHOOSE x \in Range(vs) : \A y \in Range(vs) : x <= y

ZeroRoot == [sgn |-> 0, sq |-> <<0, 1>>]

\* std / mean of two Python floats: ZeroDivisionError when mean is 0.
FloatDiv(std, mean) ==
    IF mean[1] = 0 THEN [raised |-> TRUE, value |-> ZeroRoot]
    ELSE [raised |-> FALSE,
          value |-> [sgn |-> IF mean[1] > 0 THEN std.sgn ELSE 0 - std.sgn,
                     sq |-> <<std.sq[1] * mean[2] * mean[2],
                              std.sq[2] * mean[1] * mean[1]>>]]

\* float(std / mean) without the test of mean.
CoeffVarUnguarded(std, mean) == FloatDiv(std, mean)

\* float(std / mean) if mean != 0 else 0.0
CoeffVar(std, mean) ==
    IF mean[1] # 0 THEN FloatDiv(std, mean)
    ELSE [raised |-> FALSE, value |-> ZeroRoot]

\* The loop of log_group_summary_table over the buckets; an exception
\* leaves it and no table is logged.
RECURSIVE SummaryLoop(_, _, _)
SummaryLoop(buckets, b, rows) ==
    IF b > Len(buckets) THEN [raised |-> FALSE, rows |-> rows]
    ELSE LET values == buckets[b].values
             mean == NpMean(values)
             std == NpStd(values)
             disparity == NpMax(values) - NpMin(values)
             coeff_var == CoeffVar(std, mean)
         IN IF coeff_var.raised THEN [raised |-> TRUE, rows |-> <<>>]
            ELSE SummaryLoop(buckets, b + 1,
                             Append(rows, [group_type |-> buckets[b].group_type,
                                           metric |-> buckets[b].metric,
                                           mean |-> mean, std |-> std,
                                           disparity |-> disparity,
                                           coeff_var |-> coeff_var.value]))

SummaryColumns == <<"Group Type", "Metric", "Mean", "Std", "Abs Disparity",
                    "Coeff Var">>

\* log_group_summary_table, called with log_wandb set
log_group_summary_table(group_type_metrics) ==
    LET out == SummaryLoop(group_type_metrics, 1, <<>>)
    IN IF out.raised
       THEN [outcome |-> "ZeroDivisionError", summary |-> NoTable]
       ELSE [outcome |-> "returned",
             summary |-> [present |-> TRUE, columns |-> SummaryColumns,
                          data |-> out.rows]]

\* log_group_eval
log_group_eval(enabled, recs) ==
    IF ~enabled THEN [NotLogged EXCEPT !.outcome = "returned"]
    ELSE LET st == GroupLoop(recs, 1, [all_rows |-> <<>>, all_metrics |-> {},
                                       first_seen |-> <<>>, buckets |-> <<>>])
         IN IF st.all_rows = <<>> THEN [NotLogged EXCEPT !.outcome = "returned"]
            ELSE LET sum == log_group_summary_table(st.buckets)
                 IN [outcome |-> sum.outcome, detail |-> DetailTable(st),
                     summary |-> sum.summary]

InitLogVars ==
    /\ group_eval \in GroupEvals
    /\ log_wandb \in BOOLEAN
    /\ logged = NotLogged

LogGroupEval ==
    /\ logged.outcome = "pending"
    /\ logged' = log_group_eval(log_wandb, group_eval)
    /\ UNCHANGED <<group_eval, log_wandb, classifyVars, topkVars, metricVars>>

NextLog == LogGroupEval

NextClassify == ClassifyTail \/ ClassifyHead

IdleClassify ==
    /\ count_items = <<>>
    /\ ratio = <<1, 1>>
    /\ classified = NotClassified

IdleMetric ==
    /\ self = NoInstance
    /\ last = NoCall

IdleLog ==
    /\ group_eval = <<>>
    /\ log_wandb = FALSE
    /\ logged = NotLogged

InitClassify == InitClassifyVars /\ IdleTopk /\ IdleMetric /\ IdleLog

InitTopk == InitTopkVars /\ IdleClassify /\ IdleMetric /\ IdleLog

SpecTopk == InitTopk /\ [][NextTopk]_vars

InitLog == InitLogVars /\ IdleClassify /\ IdleTopk /\ IdleMetric

SpecLog == InitLog /\ [][NextLog]_vars

Init == InitMetricVars /\ IdleClassify /\ IdleTopk /\ IdleLog

Spec == Init /\ [][Next]_vars

SpecClassify == InitClassify /\ [][NextClassify]_vars

(***************************************************************************)
(* Properties of the classifier, stated on the table and not on the loop.  *)
(***************************************************************************)
RECURSIVE Mass(_, _)
Mass(counts, T) ==
    IF T = {} THEN 0
    ELSE LET i == CHOOSE x \in T : TRUE
         IN counts[i] + Mass(counts, T \ {i})

Total(counts) == Mass(counts, DOMAIN counts)

MaxOf(counts) == CHOOSE c \in {counts[i] : i \in DOMAIN counts} :
                    \A i \in DOMAIN counts : counts[i] <= c

TailCalled == classified.policy = "tail" /\ DOMAIN count_items # {}
HeadCalled == classified.policy = "head" /\ DOMAIN count_items # {}

\* mass >= ratio * total
MassReaches(r, counts, T) == Mass(counts, T) * r[2] >= r[1] * Total(counts)
\* mass < ratio * total + max(counts)
MassBelowCap(r, counts, T) ==
    Mass(counts, T) * r[2] < r[1] * Total(counts) + MaxOf(counts) * r[2]

\* The scenario of the specification: A:10 B:5 C:3 D:2 (ids 1..4), ratio 0.2.
ScenarioCounts == (1 :> 10) @@ (2 :> 5) @@ (3 :> 3) @@ (4 :> 2)

C4_EmptyTableIsError ==
    (classified.policy # "none" /\ DOMAIN count_items = {}) =>
        classified.outcome = "InvalidInputError"

\* C10: the head is a prefix of the items in descending count order, cut at
\* the first item with which the mass reaches (1 - tail_ratio) * total.
HeadRatio(r) == <<r[2] - r[1], r[2]>>

IsHeadPrefix(r, counts, H) ==
    /\ H # {}
    /\ H \subseteq DOMAIN counts
    /\ \A i \in H : \A j \in DOMAIN counts \ H : counts[i] >= counts[j]
    /\ MassReaches(r, counts, H)
    /\ \E b \in H :
          /\ \A i \in H : counts[b] <= counts[i]
          /\ (H = {b} \/ ~MassReaches(r, counts, H \ {b}))

C10_HeadUsesOneMinusTailRatio ==
    (HeadCalled /\ ratio[1] < ratio[2]) =>
        IsHeadPrefix(HeadRatio(ratio), count_items, classified.items)

(***************************************************************************)
(* Properties of the aggregator, stated on the matrix and the set.         *)
(***************************************************************************)
\* The number of positions j <= k of row u whose item is in the set.
Hits(m, S, u, k) == Cardinality({j \in 1..k : m[u][j] \in S})

RECURSIVE HitsAllUsers(_, _, _, _)
HitsAllUsers(m, S, k, u) ==
    IF u = 0 THEN 0 ELSE Hits(m, S, u, k) + HitsAllUsers(m, S, k, u - 1)

\* The mean over all users of Hits / k, as a fraction.
MeanHitRate(m, S, k) == <<HitsAllUsers(m, S, k, Len(m)), k * Len(m)>>

Aggregated == result.metric # "none"
AllCutoffsValid == \A k \in Range(topk) : k <= NumCols(item_matrix)

\* C3: with every cutoff k in 1..N the pipeline returns exactly one entry
\* per configured cutoff, keyed by the metric name and k, whose unrounded
\* value is the mean over the users of (hits among the first k ranks) / k;
\* at k = 1 that is the mean 0/1 membership of the rank-1 item.
C3_CumulativeMeanPerCutoff ==
    (Aggregated /\ AllCutoffsValid) =>
        /\ result.outcome = "returned"
        /\ result.metric \in {"cumulativetailpercentage", "headpercentage"}
        /\ DOMAIN result.entries = Range(topk)
        /\ \A k \in Range(topk) :
              FracEq(result.entries[k].raw, MeanHitRate(item_matrix, item_set, k))
        /\ 1 \in Range(topk) =>
              FracEq(result.entries[1].raw,
                     <<Cardinality({u \in DOMAIN item_matrix :
                                       item_matrix[u][1] \in item_set}),
                       Len(item_matrix)>>)

\* Two users, two cutoffs, and a score that decreases from k = 1 to k = 2.
C3_Witness ==
    /\ Aggregated
    /\ result.outcome = "returned"
    /\ Len(item_matrix) = 2
    /\ topk = <<1, 2>>
    /\ FracLess(result.entries[2].raw, result.entries[1].raw)
    /\ FracLess(<<0, 1>>, result.entries[2].raw)

C6_RatioOutsideUnitRejected ==
    /\ (self.cls # "none" /\ self.config_ratio.set) =>
          InUnitInterval(self.config_ratio.value)
    /\ last.called => InUnitInterval(last.tail_ratio)

\* The bottom-up tail of a table under a ratio, by rank in (count, id) order:
\* the shortest prefix whose mass reaches ratio * total, else every item.
Before(counts, i, j) ==
    counts[i] < counts[j] \/ (counts[i] = counts[j] /\ i < j)

RankOf(counts, i) ==
    Cardinality({j \in DOMAIN counts : Before(counts, j, i)}) + 1

PrefixOf(counts, n) == {i \in DOMAIN counts : RankOf(counts, i) <= n}

FirstCrossing(r, counts) ==
    LET size == Cardinality(DOMAIN counts)
        reach == {n \in 1..size : MassReaches(r, counts, PrefixOf(counts, n))}
    IN IF reach = {} THEN DOMAIN counts
       ELSE PrefixOf(counts, CHOOSE n \in reach : \A n2 \in reach : n <= n2)

\* C9: the set a calculate_metric call of a tail metric uses is the
\* classification of the table of that call under the ratio in effect at
\* that call, whatever ratios and tables came before.
C9_NoStaleClassification ==
    (last.called /\ self.cls = "tail") =>
        /\ last.items = FirstCrossing(last.tail_ratio, last.count_items)
        /\ FracEq(last.result.entries[1].raw,
                  MeanHitRate(last.item_matrix, last.items, 1))

\* A call that follows a change of the ratio and whose set differs from the
\* set the same table has under the configured ratio.
C9_Witness ==
    /\ last.called
    /\ self.cls = "tail"
    /\ last.tail_ratio # init_tail_ratio(self.config_ratio)
    /\ last.tail_ratio = self.tail_ratio
    /\ last.items # FirstCrossing(init_tail_ratio(self.config_ratio), last.count_items)

(***************************************************************************)
(* Properties of the group tables, stated on the records of group_eval.    *)
(***************************************************************************)
TablesLogged == logged.outcome # "pending" /\ log_wandb /\ group_eval # <<>>

\* The (group type, metric) buckets that hold at least one value.
BucketKeys ==
    {<<group_eval[i].group_type, m>> :
        i \in DOMAIN group_eval, m \in MetricNames} \cap
    {key \in GroupTypes \X MetricNames :
        \E i \in DOMAIN group_eval :
            /\ group_eval[i].group_type = key[1]
            /\ key[2] \in DOMAIN group_eval[i].metrics}

BucketRecords(key) ==
    {i \in DOMAIN group_eval :
        group_eval[i].group_type = key[1] /\ key[2] \in DOMAIN group_eval[i].metrics}

RECURSIVE SumOver(_, _, _)
SumOver(key, I, power) ==
    IF I = {} THEN 0
    ELSE LET i == CHOOSE x \in I : TRUE
             v == group_eval[i].metrics[key[2]]
         IN (IF power = 2 THEN v * v ELSE v) + SumOver(key, I \ {i}, power)

\* std / mean of a bucket with mean # 0: the sign of the mean (0 when the
\* deviation is 0), and the square (n * sum(x^2) - sum(x)^2) / sum(x)^2.
ExpectedCoeffVar(key, cv) ==
    LET I == BucketRecords(key)
        n == Cardinality(I)
        sum1 == SumOver(key, I, 1)
        sum2 == SumOver(key, I, 2)
        spread == n * sum2 - sum1 * sum1
    IN IF sum1 = 0 THEN cv = ZeroRoot
       ELSE /\ FracEq(cv.sq, <<spread, sum1 * sum1>>)
            /\ cv.sgn = (IF spread = 0 THEN 0 ELSE IF sum1 > 0 THEN 1 ELSE 0 - 1)

SummaryRowsOf(key) ==
    {r \in DOMAIN logged.summary.data :
        /\ logged.summary.data[r].group_type = key[1]
        /\ logged.summary.data[r].metric = key[2]}

\* C7: every non-empty (group type, metric) bucket has its summary row,
\* whose coefficient of variation is std / mean when mean # 0 and exactly
\* 0.0 when mean = 0 (all values 0.0 included); no error is raised.
C7_CoeffVarZeroWhenMeanZero ==
    TablesLogged =>
        /\ logged.outcome = "returned"
        /\ logged.summary.present
        /\ \A key \in BucketKeys :
              /\ Cardinality(SummaryRowsOf(key)) = 1
              /\ \A r \in SummaryRowsOf(key) :
                    ExpectedCoeffVar(key, logged.summary.data[r].coeff_var)

\* A summary with a bucket of mean 0 whose values are not all 0, next to a
\* bucket of mean # 0 with a coefficient of variation other than 0.
C7_Witness ==
    /\ TablesLogged
    /\ logged.summary.present
    /\ \E r1, r2 \in DOMAIN logged.summary.data :
          /\ logged.summary.data[r1].mean[1] = 0
          /\ logged.summary.data[r1].std.sgn = 1
          /\ logged.summary.data[r1].coeff_var = ZeroRoot
          /\ logged.summary.data[r2].mean[1] # 0
          /\ logged.summary.data[r2].coeff_var.sgn # 0

AllMetricNames == UNION {DOMAIN group_eval[i].metrics : i \in DOMAIN group_eval}

\* C8: for every non-empty collection of records, in every iteration order,
\* the columns are the three fixed columns followed by the union of the
\* metric names of all records, sorted and without duplicates; each row has
\* one cell per column, and the cell of a metric its record does not carry
\* is unset, not zero.
C8_DetailColumnsSortedUnion ==
    TablesLogged =>
        LET columns == logged.detail.columns
            data == logged.detail.data
        IN /\ logged.detail.present
           /\ Len(columns) = 3 + Cardinality(AllMetricNames)
           /\ SubSeq(columns, 1, 3) = FixedColumns
           /\ {columns[c] : c \in 4..Len(columns)} =
                 {MetricColumn(m) : m \in AllMetricNames}
           /\ \A c, d \in 4..Len(columns) : (c < d) => columns[c][2] < columns[d][2]
           /\ Len(data) = Len(group_eval)
           /\ \A r \in DOMAIN data :
                 /\ Len(data[r].fixed) + Len(data[r].cells) = Len(columns)
                 /\ \A c \in DOMAIN data[r].cells :
                       LET m == columns[c + 3][2]
                       IN IF m \in DOMAIN group_eval[r].metrics
                          THEN data[r].cells[c] = Cell(group_eval[r].metrics[m])
                          ELSE data[r].cells[c] = Unset

\* Two records whose metrics differ, the later name first: a cell is unset
\* and the columns are not in the order the names were seen.
C8_Witness ==
    /\ TablesLogged
    /\ logged.detail.present
    /\ Len(group_eval) = 2
    /\ DOMAIN group_eval[1].metrics = {2}
    /\ DOMAIN group_eval[2].metrics = {1}
    /\ logged.detail.data[1].cells = <<Unset, Cell(group_eval[1].metrics[2])>>

====
